---- MODULE Spec2Model ----
(***************************************************************************)
(* A model of the next-lessons demonstration application:                  *)
(*   - cookie based JWT authentication (lib/auth/jwt.ts, lib/auth/auth.ts, *)
(*     app/api/auth/login/route.ts, app/middleware.ts,                     *)
(*     app/dashboard/page.tsx);                                            *)
(*   - the optimistic post form (app/optimistic/page.tsx);                 *)
(*   - the cached posts and their tag (lib/cache/posts.ts,                 *)
(*     app/cache/page.tsx, app/cache/actions.ts);                          *)
(*   - the posts route (app/api/posts/route.ts).                           *)
(*                                                                         *)
(* Representation                                                          *)
(*   string | undefined    a sequence of length 0 (undefined) or 1         *)
(*   a pathname            the sequence of the character runs it is made   *)
(*                         of: "/dashboard/settings" is                    *)
(*                         <<"/dashboard", "/settings">> and "/dashboards" *)
(*                         is <<"/dashboard", "s">>, so that startsWith is *)
(*                         the prefix test on sequences                    *)
(*   a cookie value        the sequence of its dot separated parts: the    *)
(*                         empty string is <<>>, a JWS in compact form is  *)
(*                         <<header, payload, signature>>                  *)
(*   time                  seconds since the epoch of the model            *)
(***************************************************************************)
EXTENDS Integers, Sequences, FiniteSets, TLC

VARIABLES
    now,        \* the clock, in seconds (Date.now() / 1000)
    jar,        \* the browser's auth-token cookie: <<>> or <<[value, expires]>>
    session,    \* the last authentication response the browser applied
    nav,        \* the navigation in flight: request, middleware, page, redirect
    api,        \* the last call of the login route or of logout, and its response
    kept,       \* the cookie value the client copied from a login: <<>> or <<token>>
    mockPosts,  \* optimistic/page.tsx: the module's post store
    form,       \* optimistic/page.tsx: title, content, isSubmitting, error
    passthrough,\* optimistic/page.tsx: mockPosts as read by the last render
    pending,    \* optimistic/page.tsx: optimistic updates not yet reverted
    submit,     \* optimistic/page.tsx: where handleSubmit stands
    dataCache,  \* 'use cache': the entry of getCachedPosts, <<>> or <<[value, tags, stamp]>>
    tagsAt,     \* next/cache: per tag, when it was last marked stale and last expired
    cacheCall,  \* the last call of getCachedPosts, handleAddPost or the server action
    cacheClock, \* the order of the calls that touch the cache
    routeMockPosts, \* api/posts/route.ts: mockPosts, the store of the route
    postsCall   \* the last request to /api/posts and its response

authVars == <<now, jar, session, nav, api, kept>>
optVars  == <<mockPosts, form, passthrough, pending, submit>>
cacheVars == <<dataCache, tagsAt, cacheCall, cacheClock>>
postVars  == <<routeMockPosts, postsCall>>
vars     == <<now, jar, session, nav, api, kept, mockPosts, form, passthrough, pending, submit,
              dataCache, tagsAt, cacheCall, cacheClock, routeMockPosts, postsCall>>

---------------------------------------------------------------------------
\* Bounds of the model

\* seconds the clock advances in one step
TickStep == 1800
\* the clock stops after this many steps
MaxTicks == 3

\* the largest user id a token is generated for
MaxUserId == 2

MaxTime == TickStep * MaxTicks
Times == {k * TickStep : k \in 0..MaxTicks}

---------------------------------------------------------------------------
\* lib/auth/jwt.ts

secretKey == "your-very-secure-secret-key-at-least-32-characters-long"

mockUsers ==
    << [id |-> 1, username |-> "demo",  password |-> "password123", role |-> "user"],
       [id |-> 2, username |-> "admin", password |-> "admin123",    role |-> "admin"] >>

\* JWT_CONFIG with a lifetime of two hours
JWT_CONFIG_TwoHours ==
    [issuer    |-> "next-methods-demo",
     audience  |-> "next-methods-client",
     expiresIn |-> [n |-> 2, unit |-> "h"]]

JWT_CONFIG ==
    [issuer    |-> "next-methods-demo",
     audience  |-> "next-methods-client",
     expiresIn |-> [n |-> 1, unit |-> "h"]]

\* seconds of a time span such as '1h', as setExpirationTime reads it
Secs(span) ==
    span.n * (CASE span.unit = "s" -> 1
                [] span.unit = "m" -> 60
                [] span.unit = "h" -> 60 * 60
                [] span.unit = "d" -> 24 * 60 * 60)

\* the keyed signature of a JWS: it can be reproduced only with the same
\* algorithm, key, protected header and payload
Hmac(alg, key, header, payload) ==
    [alg |-> alg, key |-> key, over |-> <<header, payload>>]

\* generateToken that signs the default role instead of the role it is given
generateToken_DefaultRole(userId, username, role, t) ==
    LET header  == [alg |-> "HS256"]
        payload == [userId   |-> userId,
                    username |-> username,
                    role     |-> "user",
                    iat      |-> t,
                    iss      |-> JWT_CONFIG.issuer,
                    aud      |-> JWT_CONFIG.audience,
                    exp      |-> t + Secs(JWT_CONFIG.expiresIn)]
    IN  <<header, payload, Hmac("HS256", secretKey, header, payload)>>

generateToken(userId, username, role, t) ==
    LET header  == [alg |-> "HS256"]
        payload == [userId   |-> userId,
                    username |-> username,
                    role     |-> role,
                    iat      |-> t,
                    iss      |-> JWT_CONFIG.issuer,
                    aud      |-> JWT_CONFIG.audience,
                    exp      |-> t + Secs(JWT_CONFIG.expiresIn)]
    IN  <<header, payload, Hmac("HS256", secretKey, header, payload)>>

\* jwtVerify(token, secretKey, {issuer, audience}) does not throw
jwtVerifyAccepts(token, t) ==
    /\ Len(token) = 3
    /\ token[1].alg \in {"HS256", "HS384", "HS512"}
    /\ token[3] = Hmac(token[1].alg, secretKey, token[1], token[2])
    /\ token[2].iss = JWT_CONFIG.issuer
    /\ token[2].aud = JWT_CONFIG.audience
    /\ ~(token[2].exp <= t)

\* verifyToken that turns away every token once a logout has been answered
verifyToken_RevokedAtLogout(token, t) ==
    IF jwtVerifyAccepts(token, t) /\ session # "out"
    THEN [ok |-> TRUE,  payload |-> <<token[2]>>, error |-> ""]
    ELSE [ok |-> FALSE, payload |-> <<>>,
          error |-> "Invalid or expired authentication token"]

verifyToken(token, t) ==
    IF jwtVerifyAccepts(token, t)
    THEN [ok |-> TRUE,  payload |-> <<token[2]>>, error |-> ""]
    ELSE [ok |-> FALSE, payload |-> <<>>,
          error |-> "Invalid or expired authentication token"]

RECURSIVE FindFrom(_, _, _)
FindFrom(i, username, password) ==
    IF i > Len(mockUsers) THEN <<>>
    ELSE IF mockUsers[i].username = username /\ mockUsers[i].password = password
         THEN <<mockUsers[i]>>
         ELSE FindFrom(i + 1, username, password)

\* the first mock user with that username and password, or null (<<>>)
findUser(username, password) == FindFrom(1, username, password)

\* setAuthCookie with a Max-Age of one day
setAuthCookie_OneDay(response, token) ==
    [response EXCEPT !.setCookie =
        Append(@, [name |-> "auth-token", value |-> token, path |-> "/",
                   httpOnly |-> TRUE, sameSite |-> "Lax", maxAge |-> 86400])]

setAuthCookie(response, token) ==
    [response EXCEPT !.setCookie =
        Append(@, [name |-> "auth-token", value |-> token, path |-> "/",
                   httpOnly |-> TRUE, sameSite |-> "Lax", maxAge |-> 3600])]

\* clearAuthCookie that overwrites the cookie with a marker instead of expiring it
clearAuthCookie_Marker(response) ==
    [response EXCEPT !.setCookie =
        Append(@, [name |-> "auth-token", value |-> << [raw |-> "deleted"] >>,
                   path |-> "/", httpOnly |-> TRUE, sameSite |-> "Lax",
                   maxAge |-> 3600])]

clearAuthCookie(response) ==
    [response EXCEPT !.setCookie =
        Append(@, [name |-> "auth-token", value |-> <<>>, path |-> "/",
                   httpOnly |-> TRUE, sameSite |-> "Lax", maxAge |-> 0])]

---------------------------------------------------------------------------
\* lib/auth/auth.ts and app/api/auth/login/route.ts

\* NextResponse.json(body, {status}): no user, no cookie
Json(status, success, message, error) ==
    [status |-> status, success |-> success, message |-> message,
     error |-> error, user |-> <<>>, setCookie |-> <<>>]

authenticate(username, password, t) ==
    LET user == findUser(username, password)
    IN  IF user = <<>>
        THEN Json(401, FALSE, "", "Invalid username or password")
        ELSE setAuthCookie(
                 [Json(200, TRUE, "Authentication successful", "") EXCEPT
                     !.user = << [id       |-> user[1].id,
                                  username |-> user[1].username,
                                  role     |-> user[1].role] >>],
                 generateToken(user[1].id, user[1].username, user[1].role, t))

\* cookie: the value of the request's auth-token cookie, or undefined
verifyAuthentication(cookie, t) ==
    LET authToken == cookie
    IN  IF authToken = <<>> \/ authToken[1] = <<>>
        THEN [isAuthenticated |-> FALSE, user |-> <<>>,
              error |-> "No authentication token provided"]
        ELSE LET verified == verifyToken(authToken[1], t)
             IN  IF verified.ok
                 THEN [isAuthenticated |-> TRUE, user |-> verified.payload, error |-> ""]
                 ELSE [isAuthenticated |-> FALSE, user |-> <<>>, error |-> verified.error]

logout == clearAuthCookie(Json(200, TRUE, "Logout successful", ""))

\* !x of a string | undefined
Falsy(x) == x = <<>> \/ x = <<"">>

\* the login route without its check that both fields are present
POST_NoPresenceCheck(body, t) ==
    IF body.json # "object"
    THEN [response |-> Json(500, FALSE, "", "Login failed"), calls |-> <<>>]
    ELSE [response |-> authenticate(IF body.username = <<>> THEN "" ELSE body.username[1],
                                    IF body.password = <<>> THEN "" ELSE body.password[1],
                                    t),
          calls |-> <<"authenticate">>]

\* the login route: the response, and the functions of lib/auth it called
POST(body, t) ==
    IF body.json # "object"
    THEN [response |-> Json(500, FALSE, "", "Login failed"), calls |-> <<>>]
    ELSE IF Falsy(body.username) \/ Falsy(body.password)
         THEN [response |-> Json(400, FALSE, "", "Username and password are required"),
               calls |-> <<>>]
         ELSE [response |-> authenticate(body.username[1], body.password[1], t),
               calls |-> <<"authenticate">>]

---------------------------------------------------------------------------
\* app/middleware.ts

Dashboard         == <<"/dashboard">>
DashboardSettings == <<"/dashboard", "/settings">>
Dashboards        == <<"/dashboard", "s">>
AuthProtected     == <<"/auth", "/protected">>
AuthLogin         == <<"/auth", "/login">>
About             == <<"/about">>
ApiPosts          == <<"/api", "/posts">>

StartsWith(pathname, prefix) ==
    /\ Len(pathname) >= Len(prefix)
    /\ SubSeq(pathname, 1, Len(prefix)) = prefix

\* a string | undefined that is neither undefined nor the empty string
Truthy(authToken) == authToken # <<>> /\ authToken[1] # <<>>

RedirectTo(location, redirectParam) ==
    [kind |-> "redirect", location |-> location, redirect |-> redirectParam]

NextResponseNext == [kind |-> "next", location |-> <<>>, redirect |-> <<>>]

\* middleware that takes any cookie that is present, the empty one too, for a token
middleware_AnyCookie(pathname, cookie) ==
    LET isProtectedRoute == \/ StartsWith(pathname, <<"/dashboard">>)
                            \/ StartsWith(pathname, <<"/auth", "/protected">>)
        isAuthenticated  == cookie # <<>> \/ pathname = AuthLogin
    IN  IF isProtectedRoute /\ ~isAuthenticated
        THEN RedirectTo(AuthLogin, <<pathname>>)
        ELSE IF pathname = AuthLogin /\ cookie # <<>>
             THEN RedirectTo(Dashboard, <<>>)
             ELSE NextResponseNext

\* cookie: the value of the request's auth-token cookie, or undefined
middleware(pathname, cookie) ==
    LET isProtectedRoute == \/ StartsWith(pathname, <<"/dashboard">>)
                            \/ StartsWith(pathname, <<"/auth", "/protected">>)
        authToken        == cookie
        isAuthenticated  == Truthy(authToken) \/ pathname = AuthLogin
    IN  IF isProtectedRoute /\ ~isAuthenticated
        THEN RedirectTo(AuthLogin, <<pathname>>)
        ELSE IF pathname = AuthLogin /\ Truthy(authToken)
             THEN RedirectTo(Dashboard, <<>>)
             ELSE NextResponseNext

\* config.matcher: the requests the middleware runs on
matcher(pathname) ==
    \/ pathname[1] \notin {"/api", "/_next/static", "/_next/image", "/favicon.ico"}
    \/ pathname[1] \in {"/auth", "/dashboard"}

---------------------------------------------------------------------------
\* app/dashboard/page.tsx

\* DashboardPage whose catch block falls through to the render
DashboardPage_CatchFallsThrough(cookie, t) ==
    IF ~Truthy(cookie)
    THEN [kind |-> "redirect", location |-> AuthLogin, user |-> <<>>]
    ELSE [kind |-> "render", location |-> <<>>, user |-> verifyToken(cookie[1], t).payload]

\* cookie: the value of the request's auth-token cookie, or undefined
DashboardPage(cookie, t) ==
    LET token == cookie
    IN  IF ~Truthy(token)
        THEN [kind |-> "redirect", location |-> AuthLogin, user |-> <<>>]
        ELSE LET verified == verifyToken(token[1], t)
             IN  IF ~verified.ok
                 THEN [kind |-> "redirect", location |-> AuthLogin, user |-> <<>>]
                 ELSE [kind |-> "render", location |-> <<>>, user |-> verified.payload]

---------------------------------------------------------------------------
\* The client: a browser with a cookie jar, or a client that sends a cookie
\* header of its own choice

Paths == {Dashboard, DashboardSettings, Dashboards, AuthProtected, AuthLogin,
          About, ApiPosts}

\* the tokens generateToken can have issued by time t
GenTokens(t) ==
    {generateToken(mockUsers[i].id, mockUsers[i].username, mockUsers[i].role, s) :
        i \in DOMAIN mockUsers, s \in {x \in Times : x <= t}}

Reissue(token, payload, key) ==
    <<token[1], payload, Hmac(token[1].alg, key, token[1], payload)>>

\* cookie values no generateToken call returns
ForgedValues(t) ==
    LET base == generateToken(1, "demo", "user", t)
    IN  { <<>>,
          << [raw |-> "garbage"] >>,
          <<base[1], [base[2] EXCEPT !.role = "admin"], base[3]>>,
          Reissue(base, base[2], "attacker-key"),
          Reissue(base, [base[2] EXCEPT !.iss = "other-issuer"], secretKey),
          Reissue(base, [base[2] EXCEPT !.aud = "other-client"], secretKey),
          <<[alg |-> "none"], base[2], Hmac("none", "", [alg |-> "none"], base[2])>> }

\* the tokens generateToken returns for any user id, username and role
UserIds   == 0..MaxUserId
Usernames == {"demo", "admin"}
Roles     == {"user", "admin"}

AnyTokens(t) ==
    {generateToken(userId, username, role, s) :
        userId \in UserIds, username \in Usernames, role \in Roles,
        s \in {x \in Times : x <= t}}

RawCookies(t) == {<<>>} \cup {<<v>> : v \in ForgedValues(t) \cup GenTokens(t)}

\* the Cookie header the browser sends at time t
CookieHeader(j, t) ==
    IF j # <<>> /\ t < j[1].expires THEN <<j[1].value>> ELSE <<>>

RECURSIVE ApplySetCookie(_, _, _)
\* the jar after the browser has read a response's Set-Cookie headers
ApplySetCookie(j, setCookie, t) ==
    IF setCookie = <<>> THEN j
    ELSE LET c    == Head(setCookie)
             next == IF c.name # "auth-token" THEN j
                     ELSE IF c.maxAge <= 0 THEN <<>>
                     ELSE << [value |-> c.value, expires |-> t + c.maxAge] >>
         IN  ApplySetCookie(next, Tail(setCookie), t)

Idle ==
    [stage |-> "idle", path |-> <<>>, raw |-> FALSE, hdr |-> <<>>, by |-> "", at |-> 0,
     location |-> <<>>, redirect |-> <<>>, content |-> "", user |-> <<>>]

NoCall == [op |-> "none", at |-> 0, body |-> <<>>, response |-> <<>>, calls |-> <<>>]

LoginBodies ==
    {[json |-> "invalid", username |-> <<>>, password |-> <<>>],
     [json |-> "null",    username |-> <<>>, password |-> <<>>]}
    \cup [json     : {"object"},
          username : {<<>>, <<"">>, <<"demo">>, <<"admin">>, <<"nobody">>},
          password : {<<>>, <<"">>, <<"password123">>, <<"admin123">>}]

AuthInit ==
    /\ now = 0
    /\ jar = <<>>
    /\ session = "none"
    /\ nav = Idle
    /\ api = NoCall
    /\ kept = <<>>

\* the client asks for a page
Navigate ==
    /\ nav.stage \in {"idle", "shown"}
    /\ \E p \in Paths, raw \in BOOLEAN :
         \E c \in (IF raw THEN RawCookies(now) ELSE {CookieHeader(jar, now)}) :
            nav' = [Idle EXCEPT !.stage = "request", !.path = p, !.raw = raw, !.hdr = c]
    /\ api' = NoCall
    /\ UNCHANGED <<now, jar, session, kept>>

\* a request reaches DashboardPage without the middleware having run on it: the
\* page is the second of the two levels that protect the route
RenderDirect ==
    /\ nav.stage \in {"idle", "shown"}
    /\ \E c \in RawCookies(now) :
         nav' = [Idle EXCEPT !.stage = "route", !.path = Dashboard, !.raw = TRUE,
                             !.hdr = c]
    /\ api' = NoCall
    /\ UNCHANGED <<now, jar, session, kept>>

\* the middleware answers the request, where the matcher selects it
Middleware ==
    /\ nav.stage = "request"
    /\ LET r == IF matcher(nav.path) THEN middleware(nav.path, nav.hdr)
                ELSE NextResponseNext
       IN  nav' = IF r.kind = "redirect"
                  THEN [nav EXCEPT !.stage = "redirected", !.by = "middleware",
                                   !.at = now,
                                   !.location = r.location, !.redirect = r.redirect]
                  ELSE [nav EXCEPT !.stage = "route", !.by = "middleware", !.at = now]
    /\ UNCHANGED <<now, jar, session, api, kept>>

\* the route's page renders: DashboardPage at /dashboard, elsewhere a page
\* without protected content
Route ==
    /\ nav.stage = "route"
    /\ IF nav.path = Dashboard
       THEN LET r == DashboardPage(nav.hdr, now)
            IN  nav' = IF r.kind = "redirect"
                       THEN [nav EXCEPT !.stage = "redirected", !.by = "page",
                                        !.at = now, !.location = r.location]
                       ELSE [nav EXCEPT !.stage = "shown", !.by = "page", !.at = now,
                                        !.content = "dashboard", !.user = r.user]
       ELSE nav' = [nav EXCEPT !.stage = "shown", !.by = "page", !.at = now,
                               !.content = "static"]
    /\ UNCHANGED <<now, jar, session, api, kept>>

\* the client follows the redirect it received
FollowRedirect ==
    /\ nav.stage = "redirected"
    /\ nav' = [Idle EXCEPT !.stage = "request", !.path = nav.location, !.raw = nav.raw,
                           !.hdr = IF nav.raw THEN nav.hdr ELSE CookieHeader(jar, now)]
    /\ UNCHANGED <<now, jar, session, api, kept>>

\* the browser posts to the login route and applies the response
Login ==
    /\ nav.stage \in {"idle", "shown"}
    /\ \E body \in LoginBodies :
         LET r == POST(body, now)
         IN  /\ api' = [op |-> "login", at |-> now, body |-> <<body>>,
                        response |-> <<r.response>>, calls |-> r.calls]
             /\ jar' = ApplySetCookie(jar, r.response.setCookie, now)
             /\ session' = IF r.response.success THEN "in" ELSE session
             /\ kept' = IF r.response.success THEN <<jar'[1].value>> ELSE kept
    /\ nav' = Idle
    /\ UNCHANGED now

\* the browser receives logout's response and applies it
Logout ==
    /\ nav.stage \in {"idle", "shown"}
    /\ api' = [op |-> "logout", at |-> now, body |-> <<>>, response |-> <<logout>>, calls |-> <<>>]
    /\ jar' = ApplySetCookie(jar, logout.setCookie, now)
    /\ session' = "out"
    /\ nav' = Idle
    /\ UNCHANGED <<now, kept>>

\* verifyAuthentication is called on a request with a cookie header
VerifyAuthentication ==
    /\ nav.stage \in {"idle", "shown"}
    /\ \E c \in RawCookies(now) \cup {<<v>> : v \in AnyTokens(now)} :
         api' = [op |-> "verifyAuthentication", at |-> now, body |-> c,
                 response |-> <<verifyAuthentication(c, now)>>, calls |-> <<>>]
    /\ nav' = Idle
    /\ UNCHANGED <<now, jar, session, kept>>

Tick ==
    /\ now + TickStep <= MaxTime
    /\ now' = now + TickStep
    /\ UNCHANGED <<jar, session, nav, api, kept>>

AuthNext ==
    \/ (Navigate /\ UNCHANGED <<optVars, cacheVars, postVars>>)
    \/ (RenderDirect /\ UNCHANGED <<optVars, cacheVars, postVars>>)
    \/ (VerifyAuthentication /\ UNCHANGED <<optVars, cacheVars, postVars>>)
    \/ (Middleware /\ UNCHANGED <<optVars, cacheVars, postVars>>)
    \/ (Route /\ UNCHANGED <<optVars, cacheVars, postVars>>)
    \/ (FollowRedirect /\ UNCHANGED <<optVars, cacheVars, postVars>>)
    \/ (Login /\ UNCHANGED <<optVars, cacheVars, postVars>>)
    \/ (Logout /\ UNCHANGED <<optVars, cacheVars, postVars>>)
    \/ (Tick /\ UNCHANGED <<optVars, cacheVars, postVars>>)

---------------------------------------------------------------------------
\* app/optimistic/page.tsx
\*   a post id is [temp, n]: the number n, or the string `temp-${n}`
\*   optimistic is FALSE where the field is absent

\* handleSubmit calls the page accepts
MaxSubmits == 3
\* milliseconds addPost waits before it answers
AddPostDelay == 1500

NumberId(n) == [temp |-> FALSE, n |-> n]
TempId(n)   == [temp |-> TRUE,  n |-> n]

InitialPosts ==
    << [id |-> NumberId(1), title |-> "Introduction to React",
        content |-> "Learn the basics of React components", optimistic |-> FALSE],
       [id |-> NumberId(2), title |-> "Next.js App Router",
        content |-> "Understanding the new App Router paradigm", optimistic |-> FALSE],
       [id |-> NumberId(3), title |-> "State Management",
        content |-> "Exploring different state management approaches",
        optimistic |-> FALSE] >>

FormTitles   == {"", " ", "Hooks", "Routing"}
FormContents == {"", " ", "Body"}

\* String.prototype.trim on the strings of the form
Trim(str) == IF str = " " THEN "" ELSE str

\* addPost that stores the post before it decides to fail
addPost_StoresFirst(posts, newPost, fail) ==
    LET post == [id |-> NumberId(Len(posts) + 1), title |-> newPost.title,
                 content |-> newPost.content, optimistic |-> FALSE]
    IN  IF fail
        THEN [success |-> FALSE, error |-> <<"Failed to save post. Please try again.">>,
              posts |-> Append(posts, post)]
        ELSE [success |-> TRUE, error |-> <<>>, posts |-> Append(posts, post)]

\* addPost once its delay is over: fail is Math.random() < 0.2
addPost(posts, newPost, fail) ==
    IF fail
    THEN [success |-> FALSE, error |-> <<"Failed to save post. Please try again.">>,
          posts |-> posts]
    ELSE LET post == [id |-> NumberId(Len(posts) + 1), title |-> newPost.title,
                      content |-> newPost.content, optimistic |-> FALSE]
         IN  [success |-> TRUE, error |-> <<>>, posts |-> Append(posts, post)]

\* the reducer given to useOptimistic
OptimisticReducer(currentPosts, newPost) ==
    Append(currentPosts, [id |-> newPost.tempId, title |-> newPost.title,
                          content |-> newPost.content, optimistic |-> TRUE])

RECURSIVE ApplyPending(_, _)
ApplyPending(posts, updates) ==
    IF updates = <<>> THEN posts
    ELSE ApplyPending(OptimisticReducer(posts, Head(updates)), Tail(updates))

\* optimisticPosts: what useOptimistic returns to the render, the list displayed
optimisticPosts == ApplyPending(passthrough, pending)

NoSubmission ==
    [answered |-> FALSE, success |-> FALSE, shown |-> <<>>, store |-> <<>>,
     title |-> "", content |-> ""]

OptInit ==
    /\ mockPosts = InitialPosts
    /\ form = [title |-> "", content |-> "", isSubmitting |-> FALSE, error |-> <<>>]
    /\ passthrough = InitialPosts
    /\ pending = <<>>
    \* pc: where handleSubmit stands; clock: Date.now(); count: calls so far;
    \* last: the latest submission, what was displayed and stored when it began
    /\ submit = [pc |-> "idle", clock |-> 0, count |-> 0, last |-> NoSubmission]

\* onChange of the title input; the render reads mockPosts again
SetTitle ==
    /\ \E t \in FormTitles : form' = [form EXCEPT !.title = t]
    /\ passthrough' = mockPosts
    /\ UNCHANGED <<mockPosts, pending, submit>>

\* onChange of the content textarea
SetContent ==
    /\ \E c \in FormContents : form' = [form EXCEPT !.content = c]
    /\ passthrough' = mockPosts
    /\ UNCHANGED <<mockPosts, pending, submit>>

\* handleSubmit up to its await; the submit button is disabled while isSubmitting
HandleSubmit ==
    /\ ~form.isSubmitting
    /\ submit.pc = "idle"
    /\ submit.count < MaxSubmits
    /\ IF Trim(form.title) = "" \/ Trim(form.content) = ""
       THEN UNCHANGED <<form, pending, submit, passthrough>>
       ELSE /\ form' = [form EXCEPT !.isSubmitting = TRUE, !.error = <<>>]
            /\ pending' = Append(pending, [title |-> form.title, content |-> form.content,
                                           tempId |-> TempId(submit.clock)])
            /\ passthrough' = mockPosts
            /\ submit' = [submit EXCEPT
                            !.pc = "awaiting", !.count = @ + 1,
                            !.last = [answered |-> FALSE, success |-> FALSE,
                                      shown |-> optimisticPosts, store |-> mockPosts,
                                      title |-> form.title, content |-> form.content]]
    /\ UNCHANGED mockPosts

\* React renders the lane that reverts the optimistic update: addOptimisticPost
\* was called in an event handler, outside a transition or action, so nothing
\* holds that lane back
RevertOptimistic ==
    /\ pending # <<>>
    /\ pending' = <<>>
    /\ passthrough' = mockPosts
    /\ UNCHANGED <<mockPosts, form, submit>>

\* addPost answers after its delay, by when React has rendered the work it had
\* scheduled, and handleSubmit runs to its end
AddPostAnswers ==
    /\ submit.pc = "awaiting"
    /\ pending = <<>>
    /\ \E fail \in BOOLEAN :
         LET result == addPost(mockPosts, [title |-> submit.last.title,
                                           content |-> submit.last.content], fail)
         IN  /\ mockPosts' = result.posts
             /\ passthrough' = result.posts
             /\ form' = [title |-> "", content |-> "", isSubmitting |-> FALSE,
                         error |-> IF ~result.success
                                   THEN (IF result.error # <<>> THEN result.error
                                         ELSE <<"Failed to add post">>)
                                   ELSE form.error]
             /\ submit' = [submit EXCEPT
                             !.pc = "idle", !.clock = @ + AddPostDelay,
                             !.last = [@ EXCEPT !.answered = TRUE,
                                                !.success = result.success]]
    /\ UNCHANGED pending

OptNext ==
    \/ (SetTitle /\ UNCHANGED <<authVars, cacheVars, postVars>>)
    \/ (SetContent /\ UNCHANGED <<authVars, cacheVars, postVars>>)
    \/ (HandleSubmit /\ UNCHANGED <<authVars, cacheVars, postVars>>)
    \/ (RevertOptimistic /\ UNCHANGED <<authVars, cacheVars, postVars>>)
    \/ (AddPostAnswers /\ UNCHANGED <<authVars, cacheVars, postVars>>)

---------------------------------------------------------------------------
\* lib/cache/posts.ts, app/cache/page.tsx, app/cache/actions.ts
\*   An entry of the 'use cache' cache carries the tags cacheTag gave it and
\*   the time it was computed. A tag carries the time revalidateTag last marked
\*   it stale and the time updateTag last expired it. An entry computed before
\*   its tag was expired is not served; one computed before its tag was marked
\*   stale is served once more while it is computed again.

\* calls that touch the cache
MaxCacheOps == 5

Tags == {"posts", "post"}

CachedPosts ==
    << [id |-> 1, title |-> "Post A", content |-> "Content A"],
       [id |-> 2, title |-> "Post B", content |-> "Content B"],
       [id |-> 3, title |-> "Post C", content |-> "Content C"] >>

\* the body of getCachedPosts run at time t: the entry it leaves in the cache
getCachedPosts(t) == [value |-> CachedPosts, tags |-> {"posts"}, stamp |-> t]

\* revalidateTag(tag, 'max'): the tag's entries are stale from t on
revalidateTag(tags, tag, t) == [tags EXCEPT ![tag].stale = t]

\* updateTag(tag): the tag's entries are expired from t on
updateTag(tags, tag, t) == [tags EXCEPT ![tag].expired = t]

Expired(entry, tags) == \E tag \in entry.tags : entry.stamp <= tags[tag].expired
Stale(entry, tags)   == \E tag \in entry.tags : entry.stamp <= tags[tag].stale
Fresh(entry, tags)   == ~Expired(entry, tags) /\ ~Stale(entry, tags)

\* formData.get(name): a string, or null (<<>>)
FormFields == {<<>>, <<"">>, <<"New post">>}

\* handleAddPost with revalidateTag given another tag than cacheTag's
handleAddPost_OtherTag(title, content, tags, t) ==
    IF Falsy(title) \/ Falsy(content)
    THEN [threw |-> TRUE, error |-> "Title and content are required", tags |-> tags]
    ELSE [threw |-> FALSE, error |-> "", tags |-> revalidateTag(tags, "post", t)]

\* the server action of CachePage: whether it threw, and the tags it leaves
handleAddPost(title, content, tags, t) ==
    IF Falsy(title) \/ Falsy(content)
    THEN [threw |-> TRUE, error |-> "Title and content are required", tags |-> tags]
    ELSE [threw |-> FALSE, error |-> "", tags |-> revalidateTag(tags, "posts", t)]

revalidatePostsImmediately(tags, t) == updateTag(tags, "posts", t)

NoCacheCall ==
    [op |-> "none", title |-> <<>>, content |-> <<>>, threw |-> FALSE, error |-> "",
     served |-> <<>>, computed |-> FALSE, entryBefore |-> <<>>,
     tagsBefore |-> [tag \in Tags |-> [stale |-> 0, expired |-> 0]]]

CacheInit ==
    /\ dataCache = <<>>
    /\ tagsAt = [tag \in Tags |-> [stale |-> 0, expired |-> 0]]
    /\ cacheCall = NoCacheCall
    /\ cacheClock = 0

\* CachePage renders and awaits getCachedPosts()
GetCachedPosts ==
    /\ cacheClock < MaxCacheOps
    /\ cacheClock' = cacheClock + 1
    /\ LET miss    == dataCache = <<>> \/ Expired(dataCache[1], tagsAt)
           compute == miss \/ Stale(dataCache[1], tagsAt)
           entry   == getCachedPosts(cacheClock')
       IN  /\ dataCache' = IF compute THEN <<entry>> ELSE dataCache
           /\ cacheCall' = [NoCacheCall EXCEPT
                              !.op = "getCachedPosts",
                              !.served = IF miss THEN entry.value ELSE dataCache[1].value,
                              !.computed = compute,
                              !.entryBefore = dataCache,
                              !.tagsBefore = tagsAt]
    /\ UNCHANGED tagsAt

\* the form of CachePage is submitted to handleAddPost
HandleAddPost ==
    /\ cacheClock < MaxCacheOps
    /\ cacheClock' = cacheClock + 1
    /\ \E title \in FormFields, content \in FormFields :
         LET r == handleAddPost(title, content, tagsAt, cacheClock')
         IN  /\ tagsAt' = r.tags
             /\ cacheCall' = [NoCacheCall EXCEPT
                                !.op = "handleAddPost", !.title = title,
                                !.content = content, !.threw = r.threw,
                                !.error = r.error, !.entryBefore = dataCache,
                                !.tagsBefore = tagsAt]
    /\ UNCHANGED dataCache

\* the server action revalidatePostsImmediately is called
RevalidatePostsImmediately ==
    /\ cacheClock < MaxCacheOps
    /\ cacheClock' = cacheClock + 1
    /\ tagsAt' = revalidatePostsImmediately(tagsAt, cacheClock')
    /\ cacheCall' = [NoCacheCall EXCEPT
                       !.op = "revalidatePostsImmediately",
                       !.entryBefore = dataCache, !.tagsBefore = tagsAt]
    /\ UNCHANGED dataCache

CacheNext ==
    \/ (GetCachedPosts /\ UNCHANGED <<authVars, optVars, postVars>>)
    \/ (HandleAddPost /\ UNCHANGED <<authVars, optVars, postVars>>)
    \/ (RevalidatePostsImmediately /\ UNCHANGED <<authVars, optVars, postVars>>)

---------------------------------------------------------------------------
\* app/api/posts/route.ts
\*   a string is [type, text, len]: len is its length; the strings posted are
\*   named after their lengths
\*   a value that is no string is [type |-> "number", ...]

\* requests to /api/posts
MaxRequests == 3

Str(text, len) == [type |-> "string", text |-> text, len |-> len]

InitialRoutePosts ==
    << [id |-> 1, title |-> Str("First Post", 10),
        content |-> Str("This is the first post content", 30)],
       [id |-> 2, title |-> Str("Second Post", 11),
        content |-> Str("This is the second post content", 31)],
       [id |-> 3, title |-> Str("Third Post", 10),
        content |-> Str("This is the third post content", 30)] >>

\* the values a body gives a field: none, a number, strings around the limits
TitleValues ==
    {<<>>, << [type |-> "number", text |-> "42", len |-> 0] >>,
     <<Str("t2", 2)>>, <<Str("t3", 3)>>, <<Str("t100", 100)>>, <<Str("t101", 101)>>}
ContentValues ==
    {<<>>, << [type |-> "number", text |-> "42", len |-> 0] >>,
     <<Str("c9", 9)>>, <<Str("c10", 10)>>, <<Str("c1000", 1000)>>, <<Str("c1001", 1001)>>}

PostBodies ==
    {[json |-> "invalid", title |-> <<>>, content |-> <<>>]}
    \cup [json : {"object"}, title : TitleValues, content : {<<Str("c10", 10)>>}]
    \cup [json : {"object"}, title : {<<Str("t3", 3)>>}, content : ContentValues]
    \cup {[json |-> "object", title |-> <<Str("t100", 100)>>,
           content |-> <<Str("c1000", 1000)>>],
          [json |-> "object", title |-> <<>>, content |-> <<>>]}

\* the id parameter of the query: absent, or a string
IdParams == {<<>>, <<"">>, <<"1">>, <<"2">>, <<"4">>, <<"abc">>}

\* Number(id): the number the string reads as, or NaN (<<>>)
Number(id) ==
    CASE id = "1" -> <<1>>
      [] id = "2" -> <<2>>
      [] id = "4" -> <<4>>
      [] id = ""  -> <<0>>
      [] OTHER    -> <<>>

\* the issue z.string().min(lo).max(hi) raises for a field, if any
StringIssue(field, value, lo, hi) ==
    IF value = <<>> \/ value[1].type # "string"
    THEN << [field |-> field, code |-> "invalid_type"] >>
    ELSE IF value[1].len < lo THEN << [field |-> field, code |-> "too_small"] >>
    ELSE IF value[1].len > hi THEN << [field |-> field, code |-> "too_big"] >>
    ELSE <<>>

\* postSchema.parse(body): the issues of a ZodError, or the validated data
postSchema(body) ==
    LET issues == StringIssue("title", body.title, 3, 100)
                  \o StringIssue("content", body.content, 10, 1000)
    IN  IF issues # <<>>
        THEN [ok |-> FALSE, issues |-> issues, title |-> <<>>, content |-> <<>>]
        ELSE [ok |-> TRUE, issues |-> <<>>, title |-> body.title, content |-> body.content]

\* NextResponse.json of the route: no data, no details
PostsJson(status, success, message, error) ==
    [status |-> status, success |-> success, message |-> message, error |-> error,
     data |-> <<>>, list |-> <<>>, details |-> <<>>]

\* the first index of the post with that id, or 0 (findIndex's -1)
RECURSIVE FindIndexFrom(_, _, _)
FindIndexFrom(posts, i, n) ==
    IF i > Len(posts) THEN 0
    ELSE IF n # <<>> /\ posts[i].id = n[1] THEN i
    ELSE FindIndexFrom(posts, i + 1, n)

findIndex(posts, id) == FindIndexFrom(posts, 1, Number(id))

PostsGET(posts) ==
    [posts |-> posts,
     response |-> [PostsJson(200, TRUE, "Posts fetched successfully", "") EXCEPT
                     !.list = posts]]

\* POST that numbers the new post with the length of the store
PostsPOST_IdIsLength(posts, body) ==
    IF body.json # "object"
    THEN [posts |-> posts, response |-> PostsJson(500, FALSE, "", "Failed to create post")]
    ELSE LET validatedData == postSchema(body)
         IN  IF ~validatedData.ok
             THEN [posts |-> posts,
                   response |-> [PostsJson(400, FALSE, "", "Validation failed") EXCEPT
                                   !.details = validatedData.issues]]
             ELSE LET newPost == [id      |-> Len(posts),
                                  title   |-> validatedData.title[1],
                                  content |-> validatedData.content[1]]
                  IN  [posts |-> Append(posts, newPost),
                       response |-> [PostsJson(201, TRUE, "Post created successfully", "")
                                       EXCEPT !.data = <<newPost>>]]

\* the POST handler: the store it leaves and its response
PostsPOST(posts, body) ==
    IF body.json # "object"
    THEN [posts |-> posts, response |-> PostsJson(500, FALSE, "", "Failed to create post")]
    ELSE LET validatedData == postSchema(body)
         IN  IF ~validatedData.ok
             THEN [posts |-> posts,
                   response |-> [PostsJson(400, FALSE, "", "Validation failed") EXCEPT
                                   !.details = validatedData.issues]]
             ELSE LET newPost == [id      |-> Len(posts) + 1,
                                  title   |-> validatedData.title[1],
                                  content |-> validatedData.content[1]]
                  IN  [posts |-> Append(posts, newPost),
                       response |-> [PostsJson(201, TRUE, "Post created successfully", "")
                                       EXCEPT !.data = <<newPost>>]]

PostsPUT(posts, id, body) ==
    IF id = <<>> \/ id = <<"">>
    THEN [posts |-> posts, response |-> PostsJson(400, FALSE, "", "Post ID is required")]
    ELSE IF body.json # "object"
    THEN [posts |-> posts, response |-> PostsJson(500, FALSE, "", "Failed to update post")]
    ELSE LET validatedData == postSchema(body)
             postIndex     == findIndex(posts, id[1])
         IN  IF ~validatedData.ok
             THEN [posts |-> posts,
                   response |-> [PostsJson(400, FALSE, "", "Validation failed") EXCEPT
                                   !.details = validatedData.issues]]
             ELSE IF postIndex = 0
             THEN [posts |-> posts, response |-> PostsJson(404, FALSE, "", "Post not found")]
             ELSE LET updated == [posts[postIndex] EXCEPT
                                    !.title = validatedData.title[1],
                                    !.content = validatedData.content[1]]
                  IN  [posts |-> [posts EXCEPT ![postIndex] = updated],
                       response |-> [PostsJson(200, TRUE, "Post updated successfully", "")
                                       EXCEPT !.data = <<updated>>]]

PostsDELETE(posts, id) ==
    IF id = <<>> \/ id = <<"">>
    THEN [posts |-> posts, response |-> PostsJson(400, FALSE, "", "Post ID is required")]
    ELSE LET postIndex == findIndex(posts, id[1])
         IN  IF postIndex = 0
             THEN [posts |-> posts, response |-> PostsJson(404, FALSE, "", "Post not found")]
             ELSE [posts |-> SubSeq(posts, 1, postIndex - 1)
                             \o SubSeq(posts, postIndex + 1, Len(posts)),
                   response |-> [PostsJson(200, TRUE, "Post deleted successfully", "")
                                   EXCEPT !.data = <<posts[postIndex]>>]]

NoPostsCall ==
    [op |-> "none", n |-> 0, id |-> <<>>, body |-> <<>>, before |-> <<>>,
     response |-> <<>>]

PostsInit ==
    /\ routeMockPosts = InitialRoutePosts
    /\ postsCall = NoPostsCall

\* a request to /api/posts: n counts the requests made
Answer(op, id, body, r) ==
    /\ routeMockPosts' = r.posts
    /\ postsCall' = [op |-> op, n |-> postsCall.n + 1, id |-> id, body |-> body,
                     before |-> routeMockPosts, response |-> <<r.response>>]

RequestGET ==
    /\ postsCall.n < MaxRequests
    /\ Answer("GET", <<>>, <<>>, PostsGET(routeMockPosts))

RequestPOST ==
    /\ postsCall.n < MaxRequests
    /\ \E body \in PostBodies :
         Answer("POST", <<>>, <<body>>, PostsPOST(routeMockPosts, body))

RequestPUT ==
    /\ postsCall.n < MaxRequests
    /\ \E id \in IdParams, body \in PostBodies :
         Answer("PUT", id, <<body>>, PostsPUT(routeMockPosts, id, body))

RequestDELETE ==
    /\ postsCall.n < MaxRequests
    /\ \E id \in IdParams :
         Answer("DELETE", id, <<>>, PostsDELETE(routeMockPosts, id))

PostsNext ==
    \/ (RequestGET /\ UNCHANGED <<authVars, optVars, cacheVars>>)
    \/ (RequestPOST /\ UNCHANGED <<authVars, optVars, cacheVars>>)
    \/ (RequestPUT /\ UNCHANGED <<authVars, optVars, cacheVars>>)
    \/ (RequestDELETE /\ UNCHANGED <<authVars, optVars, cacheVars>>)

Init == AuthInit /\ OptInit /\ CacheInit /\ PostsInit

AuthSpec == Init /\ [][AuthNext]_vars

\* the server answers every request and the client follows every redirect
AuthFairSpec ==
    /\ AuthSpec
    /\ WF_vars(Middleware /\ UNCHANGED <<optVars, cacheVars, postVars>>)
    /\ WF_vars(Route /\ UNCHANGED <<optVars, cacheVars, postVars>>)
    /\ WF_vars(FollowRedirect /\ UNCHANGED <<optVars, cacheVars, postVars>>)

OptimisticSpec == Init /\ [][OptNext]_vars

CacheSpec == Init /\ [][CacheNext]_vars

PostsSpec == Init /\ [][PostsNext]_vars

---------------------------------------------------------------------------
\* Properties

\* the paths of Paths that start with /dashboard or with /auth/protected
ProtectedPaths == {Dashboard, DashboardSettings, Dashboards, AuthProtected}

ExpiredMessage == "Invalid or expired authentication token"

LoginResponse == api.response[1]
LoginBody     == api.body[1]

\* C1: DashboardPage renders the protected content only for a request whose
\* auth-token cookie is present and accepted by verifyToken at the time of the
\* render; when the cookie is missing or verifyToken throws, the page answers
\* with a redirect to /auth/login and renders nothing.
DashboardRendersOnlyVerified ==
    /\ nav.content = "dashboard" =>
          /\ nav.path = Dashboard
          /\ nav.hdr # <<>>
          /\ verifyToken(nav.hdr[1], nav.at).ok
          /\ nav.user = verifyToken(nav.hdr[1], nav.at).payload
    /\ (nav.by = "page" /\ nav.path = Dashboard
          /\ (nav.hdr = <<>> \/ ~verifyToken(nav.hdr[1], nav.at).ok)) =>
          /\ nav.stage = "redirected"
          /\ nav.location = AuthLogin
          /\ nav.content = ""
          /\ nav.user = <<>>

\* the browser is shown the dashboard for the cookie a login gave it
DashboardRendered ==
    /\ nav.content = "dashboard"
    /\ ~nav.raw
    /\ nav.user # <<>>
    /\ nav.user[1].username = "admin"

\* C2: for a request to a path under /dashboard or /auth/protected without an
\* auth-token cookie, or with an empty one, the middleware answers with a
\* redirect to /auth/login whose redirect parameter is the requested path; the
\* request does not go on to the route.
MiddlewareRedirectsWithoutCookie ==
    (nav.by = "middleware" /\ nav.path \in ProtectedPaths
        /\ (nav.hdr = <<>> \/ nav.hdr = << <<>> >>)) =>
       /\ nav.stage = "redirected"
       /\ nav.location = AuthLogin
       /\ nav.redirect = <<nav.path>>

\* the middleware has redirected a request for /auth/protected whose cookie is empty
EmptyCookieRedirected ==
    /\ nav.by = "middleware"
    /\ nav.path = AuthProtected
    /\ nav.hdr = << <<>> >>
    /\ nav.stage = "redirected"
    /\ nav.redirect = <<AuthProtected>>

\* C3: the middleware lets a request for a protected route go on to the route
\* only when its auth-token cookie is a token verifyToken accepts.
MiddlewareAdmitsOnlyValidTokens ==
    (nav.by = "middleware" /\ nav.stage = "route" /\ nav.path \in ProtectedPaths) =>
       /\ nav.hdr # <<>>
       /\ verifyToken(nav.hdr[1], nav.at).ok

\* C4: a client that asks for /dashboard with a cookie that is present and fails
\* verification, and follows every redirect, is eventually shown the login page.
RedirectChainTerminates ==
    (/\ nav.stage = "request"
     /\ nav.path = Dashboard
     /\ Truthy(nav.hdr)
     /\ ~verifyToken(nav.hdr[1], now).ok)
    ~> (nav.stage = "shown" /\ nav.path = AuthLogin)

\* C5: a login whose username and password are those of a mock user answers 200
\* with success, that user's id, username and role, and exactly one Set-Cookie
\* header: auth-token, Path=/, HttpOnly, SameSite=Lax, Max-Age=3600.
LoginSuccessResponse ==
    api.op = "login" =>
       \A i \in DOMAIN mockUsers :
          (/\ LoginBody.json = "object"
           /\ LoginBody.username = <<mockUsers[i].username>>
           /\ LoginBody.password = <<mockUsers[i].password>>) =>
             /\ LoginResponse.status = 200
             /\ LoginResponse.success
             /\ LoginResponse.user = << [id       |-> mockUsers[i].id,
                                        username |-> mockUsers[i].username,
                                        role     |-> mockUsers[i].role] >>
             /\ Len(LoginResponse.setCookie) = 1
             /\ LoginResponse.setCookie[1].name = "auth-token"
             /\ LoginResponse.setCookie[1].value # <<>>
             /\ LoginResponse.setCookie[1].path = "/"
             /\ LoginResponse.setCookie[1].httpOnly
             /\ LoginResponse.setCookie[1].sameSite = "Lax"
             /\ LoginResponse.setCookie[1].maxAge = 3600

\* the admin has logged in and the browser holds the cookie
AdminLoggedIn ==
    /\ api.op = "login"
    /\ LoginBody.username = <<"admin">>
    /\ LoginResponse.status = 200
    /\ jar # <<>>
    /\ jar[1].value = LoginResponse.setCookie[1].value

FailedLoginSetsNoCookie ==
    api.op = "login" =>
       /\ (LoginBody.json = "object"
             /\ (LoginBody.username \in {<<>>, <<"">>}
                   \/ LoginBody.password \in {<<>>, <<"">>})) =>
             /\ LoginResponse.status = 400
             /\ ~LoginResponse.success
             /\ api.calls = <<>>
       /\ (LoginBody.json = "object"
             /\ LoginBody.username \notin {<<>>, <<"">>}
             /\ LoginBody.password \notin {<<>>, <<"">>}
             /\ \A i \in DOMAIN mockUsers :
                   ~(/\ LoginBody.username = <<mockUsers[i].username>>
                     /\ LoginBody.password = <<mockUsers[i].password>>)) =>
             /\ LoginResponse.status = 401
             /\ ~LoginResponse.success
             /\ LoginResponse.error = "Invalid username or password"
       /\ (~LoginResponse.success \/ LoginResponse.status # 200) =>
             /\ LoginResponse.setCookie = <<>>
             /\ LoginResponse.user = <<>>

\* one user's name with the other user's password has been refused, and the
\* cookie of an earlier login is still in the jar
MixedCredentialsRefused ==
    /\ api.op = "login"
    /\ LoginBody.username = <<"demo">>
    /\ LoginBody.password = <<"admin123">>
    /\ LoginResponse.status = 401
    /\ jar # <<>>

\* C8: logout answers with success and one Set-Cookie header that clears
\* auth-token (empty value, Max-Age=0); from the moment the browser has applied
\* it until a login succeeds, the browser holds no cookie and each request it
\* makes for a protected route is redirected to /auth/login by the middleware.
LogoutClearsCookie ==
    /\ api.op = "logout" =>
          /\ api.response[1].status = 200
          /\ api.response[1].success
          /\ Len(api.response[1].setCookie) = 1
          /\ api.response[1].setCookie[1].name = "auth-token"
          /\ api.response[1].setCookie[1].value = <<>>
          /\ api.response[1].setCookie[1].maxAge = 0
    /\ session = "out" => jar = <<>>
    /\ (session = "out" /\ ~nav.raw /\ nav.path \in ProtectedPaths
          /\ nav.stage # "request") =>
          /\ nav.stage = "redirected"
          /\ nav.by = "middleware"
          /\ nav.location = AuthLogin

\* after a logout the browser asked for the dashboard and was sent to /auth/login
LoggedOutRedirected ==
    /\ session = "out"
    /\ ~nav.raw
    /\ nav.path = Dashboard
    /\ nav.stage = "redirected"
    /\ now > 0

\* C9: a token is refused once more than 3600 seconds have passed since
\* generateToken produced it: verifyToken throws 'Invalid or expired
\* authentication token', DashboardPage does not render for it, and the Max-Age
\* of the cookie a login sets equals the lifetime of the token in it, 3600 s.
TokenExpiresAfterOneHour ==
    /\ (api.op = "verifyAuthentication" /\ api.body # <<>>
          /\ api.body[1] \in AnyTokens(api.at)
          /\ api.at > api.body[1][2].iat + 3600) =>
          /\ ~api.response[1].isAuthenticated
          /\ api.response[1].error = ExpiredMessage
    /\ nav.content = "dashboard" => nav.at <= nav.hdr[1][2].iat + 3600
    /\ (nav.by = "page" /\ nav.path = Dashboard /\ nav.hdr # <<>>
          /\ nav.hdr[1] \in AnyTokens(nav.at)
          /\ nav.at > nav.hdr[1][2].iat + 3600) =>
          nav.stage = "redirected"
    /\ (api.op = "login" /\ LoginResponse.success) =>
          /\ LoginResponse.setCookie[1].maxAge = 3600
          /\ LoginResponse.setCookie[1].value[2].exp
               - LoginResponse.setCookie[1].value[2].iat
               = LoginResponse.setCookie[1].maxAge

\* DashboardPage has turned away a token that a login issued more than an hour before
ExpiredTokenTurnedAway ==
    /\ nav.by = "page"
    /\ nav.stage = "redirected"
    /\ nav.hdr # <<>>
    /\ nav.hdr[1] \in GenTokens(nav.at)
    /\ nav.at > nav.hdr[1][2].iat + 3600

\* C10: when addPost has answered with success false and handleSubmit has run
\* to its end, the list displayed is the list that was displayed when the form
\* was submitted, without any optimistic entry, mockPosts is what it was, and
\* the error message is set.
OptimisticRollback ==
    (submit.pc = "idle" /\ submit.last.answered /\ ~submit.last.success) =>
       /\ optimisticPosts = submit.last.shown
       /\ \A i \in DOMAIN optimisticPosts : ~optimisticPosts[i].optimistic
       /\ mockPosts = submit.last.store
       /\ form.error = <<"Failed to save post. Please try again.">>
       /\ ~form.isSubmitting

\* a submission has failed after an earlier one had succeeded
SubmissionRolledBack ==
    /\ submit.pc = "idle"
    /\ submit.last.answered
    /\ ~submit.last.success
    /\ Len(mockPosts) = Len(InitialPosts) + 1
    /\ submit.last.title = "Hooks"

\* C11: from a handleSubmit call with a title and a content that are not blank
\* until addPost answers, the list displayed is the confirmed posts followed by
\* one entry with the submitted title and content, a temporary id and
\* optimistic = true.
OptimisticEntryShownWhileAwaiting ==
    submit.pc = "awaiting" =>
       /\ Len(optimisticPosts) = Len(mockPosts) + 1
       /\ SubSeq(optimisticPosts, 1, Len(mockPosts)) = mockPosts
       /\ optimisticPosts[Len(optimisticPosts)].title = submit.last.title
       /\ optimisticPosts[Len(optimisticPosts)].content = submit.last.content
       /\ optimisticPosts[Len(optimisticPosts)].id.temp
       /\ optimisticPosts[Len(optimisticPosts)].optimistic

\* C12: the entry getCachedPosts leaves in the cache is tagged 'posts'; after
\* every handleAddPost with a title and a content, and after every
\* revalidatePostsImmediately, the entry cached before is no longer fresh, and
\* the next getCachedPosts computes it again; handleAddPost with a missing or
\* empty title or content throws 'Title and content are required' and leaves
\* every tag as it was.
TagInvalidation ==
    /\ dataCache # <<>> => dataCache[1].tags = {"posts"}
    /\ (cacheCall.op = "handleAddPost"
          /\ cacheCall.title \notin {<<>>, <<"">>}
          /\ cacheCall.content \notin {<<>>, <<"">>}) =>
          /\ ~cacheCall.threw
          /\ dataCache # <<>> => ~Fresh(dataCache[1], tagsAt)
    /\ cacheCall.op = "revalidatePostsImmediately" =>
          (dataCache # <<>> => ~Fresh(dataCache[1], tagsAt))
    /\ (cacheCall.op = "getCachedPosts" /\ cacheCall.entryBefore # <<>>
          /\ ~Fresh(cacheCall.entryBefore[1], cacheCall.tagsBefore)) =>
          /\ cacheCall.computed
          /\ dataCache[1].stamp > cacheCall.entryBefore[1].stamp
          /\ Fresh(dataCache[1], tagsAt)
    /\ (cacheCall.op = "handleAddPost"
          /\ (cacheCall.title \in {<<>>, <<"">>} \/ cacheCall.content \in {<<>>, <<"">>})) =>
          /\ cacheCall.threw
          /\ cacheCall.error = "Title and content are required"
          /\ tagsAt = cacheCall.tagsBefore

\* an entry that a handleAddPost had made stale has been computed again
StaleEntryRecomputed ==
    /\ cacheCall.op = "getCachedPosts"
    /\ cacheCall.computed
    /\ cacheCall.entryBefore # <<>>
    /\ cacheCall.entryBefore[1].stamp <= cacheCall.tagsBefore["posts"].stale
    /\ cacheCall.tagsBefore["posts"].expired = 0

---------------------------------------------------------------------------
\* the body of the last request holds a title of 3..100 characters and a
\* content of 10..1000 characters
BodyWithinLimits ==
    /\ postsCall.body # <<>>
    /\ postsCall.body[1].json = "object"
    /\ postsCall.body[1].title # <<>>
    /\ postsCall.body[1].title[1].type = "string"
    /\ postsCall.body[1].title[1].len >= 3
    /\ postsCall.body[1].title[1].len <= 100
    /\ postsCall.body[1].content # <<>>
    /\ postsCall.body[1].content[1].type = "string"
    /\ postsCall.body[1].content[1].len >= 10
    /\ postsCall.body[1].content[1].len <= 1000

\* C13: a POST to /api/posts whose title has 3..100 characters and whose
\* content has 10..1000 characters answers 201 with the new post; the store is
\* then the store before with one post appended, which has the title and the
\* content given and the id (length of the store before) + 1; every post that
\* was in the store is still there, in its place, unchanged.
PostAppendsOnePost ==
    (postsCall.op = "POST" /\ BodyWithinLimits) =>
        LET before   == postsCall.before
            response == postsCall.response[1]
            newPost  == [id      |-> Len(before) + 1,
                         title   |-> postsCall.body[1].title[1],
                         content |-> postsCall.body[1].content[1]]
        IN  /\ response.status = 201
            /\ response.success
            /\ response.data = <<newPost>>
            /\ Len(routeMockPosts) = Len(before) + 1
            /\ routeMockPosts[Len(routeMockPosts)] = newPost
            /\ \A i \in 1..Len(before) : routeMockPosts[i] = before[i]

\* a post with the longest title and content allowed has been created in a
\* store that a DELETE had shortened
PostCreatedAfterDelete ==
    /\ postsCall.op = "POST"
    /\ BodyWithinLimits
    /\ postsCall.body[1].title[1].len = 100
    /\ postsCall.body[1].content[1].len = 1000
    /\ Len(postsCall.before) = 2
    /\ postsCall.response[1].status = 201
    /\ Len(routeMockPosts) = 3

---------------------------------------------------------------------------
\* the client has copied a token from a login and a logout has been answered
\* since
LoggedOutWithKeptToken ==
    /\ kept # <<>>
    /\ session = "out"

\* C14: nothing is revoked. A token that a login issued and the client copied
\* is accepted by verifyToken at every time before its exp, a logout answered
\* in between or not; a request that carries the copied value before its exp
\* has verifyAuthentication answer isAuthenticated and DashboardPage render the
\* dashboard, after a logout as before it.
NoRevocation ==
    /\ kept # <<>> =>
          (verifyToken(kept[1], now).ok <=> now < kept[1][2].exp)
    /\ (kept # <<>> /\ api.op = "verifyAuthentication" /\ api.body = kept
          /\ api.at < kept[1][2].exp) =>
          /\ api.response[1].isAuthenticated
          /\ api.response[1].user # <<>>
    /\ (kept # <<>> /\ nav.by = "page" /\ nav.path = Dashboard /\ nav.hdr = kept
          /\ nav.at < kept[1][2].exp) =>
          /\ nav.stage = "shown"
          /\ nav.content = "dashboard"
          /\ nav.user # <<>>

\* after a logout emptied the jar, a request that carries the copied token
\* has the dashboard rendered
DashboardRenderedAfterLogout ==
    /\ LoggedOutWithKeptToken
    /\ jar = <<>>
    /\ nav.raw
    /\ nav.hdr = kept
    /\ nav.path = Dashboard
    /\ nav.by = "page"
    /\ nav.content = "dashboard"

====
